---- MODULE Spec2Model ----
(***************************************************************************)
(* Model of scraper.py: the key extraction helpers (_normalize_url,        *)
(* _normalize_name, _extract_domain), the deduplicating merge of the       *)
(* __main__ block, and the per-card resolution loop of scrape().           *)
(*                                                                         *)
(* Python strings are TLA+ strings; a character is a string of length 1.   *)
(***************************************************************************)
EXTENDS Integers, Sequences, FiniteSets, TLC

VARIABLES
    \* ---- key extraction (a call of _extract_domain) ----
    url,              \* the argument of _extract_domain
    host,             \* the value it returned
    kpc,              \* "call" before the call, "done" after it
    \* ---- merge (the __main__ block) ----
    existing_df,      \* rows loaded from the persisted CSV
    df,               \* candidate rows returned by scrape()
    existing_names,   \* set(existing_df['__name_norm'])
    existing_domains, \* set(existing_df['__domain'])
    new_rows,         \* rows accepted by the filter loop
    seen_names,       \* run-local set of accepted normalized names
    seen_domains,     \* run-local set of accepted domains
    it,               \* position of df.iterrows(): rows 1..it-1 are done
    accepted,         \* positions of df whose row was appended to new_rows
    appended_df,      \* the frame built by concat and cut by drop_duplicates
    mpc,              \* position in the __main__ block
    \* ---- scrape() (the listing loop) ----
    env_max,          \* os.environ: << >> if MAX_COMPANIES is unset, else <<value>>
    found,            \* the cards query_selector_all returned, in scan order
    MAX_COMPANIES,    \* the cap read from the environment
    cards,            \* cards[:MAX_COMPANIES]
    ci,               \* position of `for card in cards`
    results,          \* rows appended so far
    card_name,        \* locals of the current card: name, ...
    company_linkedin,
    company_website,
    founders_linkedin,
    raw,              \* the data-page payload read by the retry loop
    attempt,          \* iterations of the retry loop begun
    waits,            \* wait_for_timeout(300) calls of the retry loop
    error,            \* what the except of line 284 caught for this card, if anything
    open_pages,       \* positions of the cards whose detail page is open
    hist,             \* the cascade steps run for this card: [field, step, got]
    dice_results,
    combined,         \* the value scrape() returns
    pc                \* position in scrape()

keyVars == <<url, host, kpc>>
scrapeVars == <<env_max, found, MAX_COMPANIES, cards, ci, results, card_name,
                company_linkedin, company_website, founders_linkedin, raw,
                attempt, waits, error, open_pages, hist, dice_results,
                combined, pc>>
mergeVars == <<existing_df, df, existing_names, existing_domains, new_rows,
               seen_names, seen_domains, it, accepted, appended_df,
               mpc>>
vars == <<keyVars, mergeVars, scrapeVars>>

(***************************************************************************)
(* String helpers: Python's str methods used by the source.                *)
(***************************************************************************)
Ch(s, k) == SubSeq(s, k, k)

UpperChars == "ABCDEFGHIJKLMNOPQRSTUVWXYZ"
LowerChars == "abcdefghijklmnopqrstuvwxyz"
DigitChars == "0123456789"

\* str.isspace for one character
IsSpace(c) == c \in {" ", "\t", "\n", "\r"}

\* the lower-case letter of each upper-case letter
LowerOf ==
    [c \in {Ch(UpperChars, k) : k \in 1..26} |->
        Ch(LowerChars, CHOOSE k \in 1..26 : Ch(UpperChars, k) = c)]

\* str.lower for one character
LowerChar(c) == IF c \in DOMAIN LowerOf THEN LowerOf[c] ELSE c

RECURSIVE Lower(_)
Lower(s) == IF s = "" THEN "" ELSE LowerChar(Head(s)) \o Lower(Tail(s))

\* s.startswith(p)
StartsWith(s, p) == Len(s) >= Len(p) /\ SubSeq(s, 1, Len(p)) = p

\* c in s, for a character c
HasChar(s, c) == \E k \in 1..Len(s) : Ch(s, k) = c

\* p in s, for a string p
Contains(s, p) ==
    \E k \in 1..(Len(s) - Len(p) + 1) : SubSeq(s, k, k + Len(p) - 1) = p

RECURSIVE LStrip(_)
LStrip(s) == IF s # "" /\ IsSpace(Head(s)) THEN LStrip(Tail(s)) ELSE s

RECURSIVE RStrip(_)
RStrip(s) ==
    IF s # "" /\ IsSpace(Ch(s, Len(s)))
    THEN RStrip(SubSeq(s, 1, Len(s) - 1))
    ELSE s

\* s.strip()
Strip(s) == RStrip(LStrip(s))

\* re.sub(r"\s+", " ", s): every maximal run of whitespace becomes one space
RECURSIVE CollapseSpace(_)
CollapseSpace(s) ==
    IF s = "" THEN ""
    ELSE IF IsSpace(Head(s))
         THEN " " \o CollapseSpace(LStrip(s))
         ELSE Head(s) \o CollapseSpace(Tail(s))

\* position of the first character of s at or after from that is in cs, 0 if none
FirstOf(s, cs, from) ==
    LET I == {k \in from..Len(s) : Ch(s, k) \in cs}
    IN  IF I = {} THEN 0 ELSE CHOOSE k \in I : \A j \in I : k <= j

(***************************************************************************)
(* _normalize_url, _normalize_name                                         *)
(***************************************************************************)
_normalize_url(u) ==
    IF u = "" THEN ""
    ELSE LET s == Strip(u)
         IN  IF StartsWith(s, "//") THEN "https:" \o s ELSE s

_normalize_name(n) ==
    IF n = "" THEN "" ELSE Lower(CollapseSpace(Strip(n)))

(***************************************************************************)
(* urllib.parse.urlparse, as far as its netloc goes.  The argument always  *)
(* starts with "http" here, so the leading-whitespace strip of urlsplit    *)
(* does nothing.  The result is [raised, netloc].                          *)
(***************************************************************************)
SchemeChars ==
    {Ch(LowerChars, k) : k \in 1..26} \cup {Ch(UpperChars, k) : k \in 1..26}
        \cup {Ch(DigitChars, k) : k \in 1..10} \cup {"+", "-", "."}

IsAlpha(c) == c \in DOMAIN LowerOf \/ c \in {LowerOf[x] : x \in DOMAIN LowerOf}

\* the part of the url left once urlsplit has cut off a scheme
AfterScheme(u) ==
    LET c == FirstOf(u, {":"}, 1)
    IN  IF /\ c > 1
           /\ IsAlpha(Ch(u, 1))
           /\ \A k \in 1..(c - 1) : Ch(u, k) \in SchemeChars
        THEN SubSeq(u, c + 1, Len(u))
        ELSE u

urlparse(u) ==
    LET rest == AfterScheme(u)
    IN  IF StartsWith(rest, "//")
        THEN LET d  == FirstOf(rest, {"/", "?", "#"}, 3)
                 nl == IF d = 0 THEN SubSeq(rest, 3, Len(rest))
                       ELSE SubSeq(rest, 3, d - 1)
             IN  IF \/ (HasChar(nl, "[") /\ ~HasChar(nl, "]"))
                    \/ (HasChar(nl, "]") /\ ~HasChar(nl, "["))
                 THEN [raised |-> TRUE, netloc |-> ""]
                 ELSE [raised |-> FALSE, netloc |-> nl]
        ELSE [raised |-> FALSE, netloc |-> ""]

(***************************************************************************)
(* _extract_domain                                                         *)
(***************************************************************************)
_extract_domain(u0) ==
    IF u0 = "" THEN ""
    ELSE LET u1 == IF StartsWith(u0, "//") THEN "https:" \o u0 ELSE u0
             u2 == IF ~StartsWith(u1, "http") THEN "http://" \o u1 ELSE u1
             p  == urlparse(u2)
             h  == Lower(p.netloc)
         IN  IF p.raised THEN ""
             ELSE IF StartsWith(h, "www.") THEN SubSeq(h, 5, Len(h)) ELSE h

(***************************************************************************)
(* Key extraction on its own: one call of _extract_domain on an input     *)
(* assembled from a prefix, a "www." part, a host and a tail.              *)
(***************************************************************************)
UrlPrefixes == {"", "//", "http://", "https://", "HTTP://", "http:", "ftp://"}
UrlWww      == {"", "www.", "WWW.", "www.www."}
UrlHosts    == {"", "a.io", "Example.com", "not a url", "[a", "u@a.io:80",
                "httpfoo.com"}
UrlTails    == {"", "/path?x=1", "?x", "#f", "/"}

UrlInputs ==
    {p \o w \o h \o t : p \in UrlPrefixes, w \in UrlWww, h \in UrlHosts,
                        t \in UrlTails}

MergeIdle ==
    /\ existing_df = << >> /\ df = << >>
    /\ existing_names = {} /\ existing_domains = {}
    /\ new_rows = << >> /\ seen_names = {} /\ seen_domains = {}
    /\ it = 0 /\ accepted = {} /\ appended_df = << >>
    /\ mpc = "idle"

KeyIdle == url = "" /\ host = "" /\ kpc = "idle"

NoRaw == [kind |-> "none", company_ok |-> TRUE, cl |-> "", cw |-> "",
          founders |-> << >>]

ScrapeIdle ==
    /\ env_max = << >> /\ found = << >> /\ MAX_COMPANIES = 0 /\ cards = << >>
    /\ ci = 0 /\ results = << >> /\ card_name = ""
    /\ company_linkedin = "" /\ company_website = "" /\ founders_linkedin = << >>
    /\ raw = NoRaw /\ attempt = 0 /\ waits = 0 /\ error = ""
    /\ open_pages = {} /\ hist = << >> /\ dice_results = << >>
    /\ combined = << >> /\ pc = "idle"

InitKey ==
    /\ url \in UrlInputs
    /\ host = ""
    /\ kpc = "call"
    /\ MergeIdle
    /\ ScrapeIdle

ExtractDomain ==
    /\ kpc = "call"
    /\ host' = _extract_domain(url)
    /\ kpc' = "done"
    /\ UNCHANGED <<url, mergeVars, scrapeVars>>

NextKey == ExtractDomain

SpecKey == InitKey /\ [][NextKey]_vars

(***************************************************************************)
(* The merge of the __main__ block (lines 441-492).                        *)
(*                                                                         *)
(* A row of existing_df is [name, site, isNew]: the columns 'name',        *)
(* 'Company Website' and 'Is a new company?' as read from the CSV, which   *)
(* is an input of the run and may hold anything.  A row of df is           *)
(* [name, site], as scrape() returns it: both fields already stripped      *)
(* (lines 291-292, 390-392 and _normalize_url).                            *)
(***************************************************************************)
MaxExisting   == 2
MaxCandidates == 2

ExistingRows ==
    { [name |-> "Acme",     site |-> "https://acme.com",     isNew |-> "YES"],
      [name |-> " foo ",    site |-> "",                     isNew |-> "green"],
      [name |-> "",         site |-> "https://www.Foo.io/x", isNew |-> ""],
      [name |-> "Bar  Baz", site |-> "acme.com",             isNew |-> ""] }

CandidateRows ==
    { [name |-> "ACME Inc", site |-> "https://www.acme.com/careers"],
      [name |-> "Foo",      site |-> "https://foo.io"],
      [name |-> "foo",      site |-> "https://foo.io/other"],
      [name |-> "Bar",      site |-> ""],
      [name |-> "",         site |-> ""],
      [name |-> "",         site |-> "//b.io"] }

SeqsUpTo(S, n) == UNION { [1..k -> S] : k \in 0..n }

\* the rows of rows at the positions in keep, in their order
RECURSIVE RowsAt(_, _, _)
RowsAt(rows, keep, j) ==
    IF j > Len(rows) THEN << >>
    ELSE (IF j \in keep THEN <<rows[j]>> ELSE << >>) \o RowsAt(rows, keep, j + 1)

\* existing_df['__name_norm'] and existing_df['__domain'] as sets (442-445)
NameNormSet(rows) == { _normalize_name(rows[j].name) : j \in 1..Len(rows) }
DomainSet(rows)   == { _extract_domain(rows[j].site) : j \in 1..Len(rows) }

\* mutant of Rejected: the test against existing_domains (461-462) is missing
RejectedNoExistingDomain(name_norm, domain, enames, edomains, snames, sdomains) ==
    \/ (name_norm # "" /\ name_norm \in enames)
    \/ (name_norm # "" /\ name_norm \in snames)
    \/ (domain # "" /\ domain \in sdomains)

\* the four `continue` tests of the filter loop (458-467)
Rejected(name_norm, domain, enames, edomains, snames, sdomains) ==
    \/ (name_norm # "" /\ name_norm \in enames)
    \/ (domain # "" /\ domain \in edomains)
    \/ (name_norm # "" /\ name_norm \in snames)
    \/ (domain # "" /\ domain \in sdomains)

\* mutant of ClearMarker: the markers read from the file are kept
KeepMarker(rows) == rows

\* existing_df['Is a new company?'] = '' (474)
ClearMarker(rows) ==
    [j \in 1..Len(rows) |-> [rows[j] EXCEPT !.isNew = ""]]

\* pd.concat(..., ignore_index=True), or the copy of existing_df (477-480),
\* with the key columns of lines 483-484
Concat(erows, nrows) ==
    LET all == erows \o nrows
    IN  [j \in 1..Len(all) |->
            [idx       |-> j - 1,
             name      |-> all[j].name,
             site      |-> all[j].site,
             isNew     |-> all[j].isNew,
             name_norm |-> _normalize_name(all[j].name),
             domain    |-> _extract_domain(all[j].site)]]

\* mutant of drop_duplicates: nothing is dropped
drop_duplicates_none(rows, col) == rows

\* mutant of drop_duplicates: keep='last'
drop_duplicates_last(rows, col) ==
    RowsAt(rows,
           {j \in 1..Len(rows) :
               \A m \in (j + 1)..Len(rows) : rows[m][col] # rows[j][col]},
           1)

\* DataFrame.drop_duplicates(subset=[col], keep='first')
drop_duplicates(rows, col) ==
    RowsAt(rows,
           {j \in 1..Len(rows) : \A m \in 1..(j - 1) : rows[m][col] # rows[j][col]},
           1)

\* DataFrame.drop(columns=['__name_norm', '__domain']) (487)
DropKeyColumns(rows) ==
    [j \in 1..Len(rows) |->
        [idx |-> rows[j].idx, name |-> rows[j].name, site |-> rows[j].site,
         isNew |-> rows[j].isNew]]

InitMerge ==
    /\ existing_df \in SeqsUpTo(ExistingRows, MaxExisting)
    /\ df \in SeqsUpTo(CandidateRows, MaxCandidates)
    /\ existing_names = {} /\ existing_domains = {}
    /\ new_rows = << >> /\ seen_names = {} /\ seen_domains = {}
    /\ it = 0 /\ accepted = {} /\ appended_df = << >>
    /\ mpc = "prepare"
    /\ KeyIdle
    /\ ScrapeIdle

\* lines 441-450
Prepare ==
    /\ mpc = "prepare"
    /\ existing_names' = NameNormSet(existing_df)
    /\ existing_domains' = DomainSet(existing_df)
    /\ new_rows' = << >>
    /\ seen_names' = {}
    /\ seen_domains' = {}
    /\ it' = 1
    /\ mpc' = "filter"
    /\ UNCHANGED <<existing_df, df, accepted, appended_df, keyVars, scrapeVars>>

\* one iteration of `for _, r in df.iterrows()` (451-470)
FilterRow ==
    /\ mpc = "filter"
    /\ it <= Len(df)
    /\ LET name      == Strip(df[it].name)
           site      == Strip(df[it].site)
           name_norm == _normalize_name(name)
           domain    == _extract_domain(site)
       IN  IF (name = "" /\ site = "")
              \/ Rejected(name_norm, domain, existing_names, existing_domains,
                          seen_names, seen_domains)
           THEN UNCHANGED <<new_rows, seen_names, seen_domains, accepted>>
           ELSE /\ seen_names' = seen_names \cup {name_norm}
                /\ seen_domains' = seen_domains \cup {domain}
                /\ new_rows' = Append(new_rows,
                                      [name |-> name, site |-> site, isNew |-> "YES"])
                /\ accepted' = accepted \cup {it}
    /\ it' = it + 1
    /\ UNCHANGED <<existing_df, df, existing_names, existing_domains,
                   appended_df, mpc, keyVars, scrapeVars>>

\* lines 472-484: clear the marker, concatenate, compute the key columns
ClearAndAppend ==
    /\ mpc = "filter"
    /\ it > Len(df)
    /\ existing_df' = ClearMarker(existing_df)
    /\ appended_df' = Concat(existing_df', new_rows)
    /\ mpc' = "drop_domain"
    /\ UNCHANGED <<df, existing_names, existing_domains, new_rows, seen_names,
                   seen_domains, it, accepted, keyVars, scrapeVars>>

\* line 485
DropDuplicatesDomain ==
    /\ mpc = "drop_domain"
    /\ appended_df' = drop_duplicates(appended_df, "domain")
    /\ mpc' = "drop_name"
    /\ UNCHANGED <<existing_df, df, existing_names, existing_domains, new_rows,
                   seen_names, seen_domains, it, accepted, keyVars, scrapeVars>>

\* lines 486-487
DropDuplicatesName ==
    /\ mpc = "drop_name"
    /\ appended_df' = DropKeyColumns(drop_duplicates(appended_df, "name_norm"))
    /\ mpc' = "save"
    /\ UNCHANGED <<existing_df, df, existing_names, existing_domains, new_rows,
                   seen_names, seen_domains, it, accepted, keyVars, scrapeVars>>

\* lines 489-497: appended_df is written out
Save ==
    /\ mpc = "save"
    /\ mpc' = "saved"
    /\ UNCHANGED <<existing_df, df, existing_names, existing_domains, new_rows,
                   seen_names, seen_domains, it, accepted, appended_df, keyVars, scrapeVars>>

NextMerge ==
    \/ Prepare
    \/ FilterRow
    \/ ClearAndAppend
    \/ DropDuplicatesDomain
    \/ DropDuplicatesName
    \/ Save

SpecMerge == InitMerge /\ [][NextMerge]_vars

(***************************************************************************)
(* Properties of the merge.                                                *)
(***************************************************************************)
Concatenated == mpc \in {"drop_domain", "drop_name", "save", "saved"}

\* the k-th accepted candidate, in candidate order
NthAccepted(k) ==
    CHOOSE j \in accepted : Cardinality({m \in accepted : m < j}) = k - 1

\* the positions (pandas index + 1) of the rows still in appended_df
Surviving == { appended_df[k].idx + 1 : k \in 1..Len(appended_df) }

\* C1: after any merge, the persisted dataset holds no two rows with the
\* same non-empty domain and no two rows with the same normalizedName.
C1_NoDuplicateKeys ==
    mpc = "saved" =>
        \A a, b \in 1..Len(appended_df) :
            a # b =>
                /\ _normalize_name(appended_df[a].name)
                       # _normalize_name(appended_df[b].name)
                /\ _extract_domain(appended_df[a].site) # ""
                       => _extract_domain(appended_df[a].site)
                              # _extract_domain(appended_df[b].site)

\* a merge of a dataset that holds a duplicate domain with a candidate that
\* is accepted and persisted
C1_Witness ==
    /\ mpc = "saved"
    /\ \E a, b \in 1..Len(existing_df) :
           /\ a # b
           /\ _extract_domain(existing_df[a].site) # ""
           /\ _extract_domain(existing_df[a].site)
                  = _extract_domain(existing_df[b].site)
    /\ \E k \in 1..Len(appended_df) : appended_df[k].isNew = "YES"

\* C2: a candidate with a non-empty field is accepted iff neither its
\* non-empty normalizedName nor its non-empty domain is among the existing
\* rows' keys or among the keys of a candidate accepted earlier in the run;
\* new_rows holds exactly the accepted candidates, in candidate order.
C2_Acceptable(j) ==
    LET nn == _normalize_name(df[j].name)
        d  == _extract_domain(df[j].site)
    IN  /\ (df[j].name # "" \/ df[j].site # "")
        /\ ~(nn # "" /\ \E e \in 1..Len(existing_df) :
                            _normalize_name(existing_df[e].name) = nn)
        /\ ~(d # "" /\ \E e \in 1..Len(existing_df) :
                           _extract_domain(existing_df[e].site) = d)
        /\ ~(nn # "" /\ \E m \in accepted :
                            m < j /\ _normalize_name(df[m].name) = nn)
        /\ ~(d # "" /\ \E m \in accepted :
                           m < j /\ _extract_domain(df[m].site) = d)

C2_AcceptedIffNoCollision ==
    mpc \in {"filter", "drop_domain", "drop_name", "save", "saved"} =>
        /\ \A j \in 1..Len(df) :
               j < it => ((j \in accepted) <=> C2_Acceptable(j))
        /\ accepted \subseteq 1..(it - 1)
        /\ Len(new_rows) = Cardinality(accepted)
        /\ \A k \in 1..Len(new_rows) :
               /\ new_rows[k].name = df[NthAccepted(k)].name
               /\ new_rows[k].site = df[NthAccepted(k)].site

\* the loop is over; one candidate was rejected for its domain colliding with
\* an existing row although its name is new, another was accepted
C2_Witness ==
    /\ mpc = "filter" /\ it > Len(df)
    /\ accepted # {}
    /\ \E j \in 1..Len(df) :
           /\ j \notin accepted
           /\ _extract_domain(df[j].site) # ""
           /\ \E e \in 1..Len(existing_df) :
                  _extract_domain(existing_df[e].site) = _extract_domain(df[j].site)
           /\ \A e \in 1..Len(existing_df) :
                  _normalize_name(existing_df[e].name) # _normalize_name(df[j].name)
           /\ \A m \in 1..Len(df) :
                  m # j => _normalize_name(df[m].name) # _normalize_name(df[j].name)

\* C3: in the merged dataset every row that came from the existing dataset
\* has its isNew marker cleared, and a row carries 'YES' only if it is a
\* candidate accepted during this run.
C3_MarkerOnlyOnNewRows ==
    Concatenated =>
        \A k \in 1..Len(appended_df) :
            LET r == appended_df[k]
                n == Len(existing_df)
            IN  /\ r.idx < n => r.isNew = ""
                /\ r.isNew # "" =>
                       /\ r.isNew = "YES"
                       /\ r.idx >= n
                       /\ r.idx - n + 1 <= Cardinality(accepted)
                       /\ r.name = df[NthAccepted(r.idx - n + 1)].name
                       /\ r.site = df[NthAccepted(r.idx - n + 1)].site

\* the persisted dataset holds a row that was loaded with a marker and a row
\* accepted in this run
C3_Witness ==
    /\ mpc = "saved"
    /\ \E k \in 1..Len(appended_df) :
           /\ appended_df[k].idx < Len(existing_df)
           /\ appended_df[k].isNew = ""
           /\ \E e \in ExistingRows :
                  /\ e.isNew # ""
                  /\ e.name = appended_df[k].name
                  /\ e.site = appended_df[k].site
    /\ \E k \in 1..Len(appended_df) : appended_df[k].isNew = "YES"

\* C4 (stated as in the spec; the code does not meet it): the domain pass
\* removes a row only when an earlier row of the concatenation has the same
\* non-empty domain, so rows with an empty domain are never removed by it.
C4_DomainPassSparesEmptyDomain ==
    mpc = "drop_name" =>
        LET all == Concat(existing_df, new_rows)
        IN  \A j \in 1..Len(all) :
                j \notin Surviving =>
                    /\ _extract_domain(all[j].site) # ""
                    /\ \E m \in 1..(j - 1) :
                           _extract_domain(all[m].site)
                               = _extract_domain(all[j].site)

\* C5: the merged dataset lists the surviving existing rows first, in their
\* original order, then the surviving accepted candidates in candidate
\* order; when an existing row and a new row collide on a key, it is the new
\* row that goes and the first row holding the key that stays.
C5_KeyOf(r, col) ==
    IF col = "domain" THEN _extract_domain(r.site) ELSE _normalize_name(r.name)

C5_ConcatInOrder ==
    LET n == Len(existing_df)
    IN  /\ Len(appended_df') = n + Cardinality(accepted)
        /\ \A k \in 1..Len(appended_df') :
               /\ appended_df'[k].idx = k - 1
               /\ k <= n => /\ appended_df'[k].name = existing_df[k].name
                            /\ appended_df'[k].site = existing_df[k].site
               /\ k > n => /\ appended_df'[k].name = df[NthAccepted(k - n)].name
                           /\ appended_df'[k].site = df[NthAccepted(k - n)].site

C5_PassKeepsOrderAndExisting(col) ==
    LET n == Len(existing_df)
    IN  \* what is left is a subsequence of what was there
        /\ \A k \in 1..Len(appended_df') :
               \E a \in 1..Len(appended_df) :
                   /\ appended_df[a].idx = appended_df'[k].idx
                   /\ appended_df[a].name = appended_df'[k].name
                   /\ appended_df[a].site = appended_df'[k].site
        /\ \A k \in 1..(Len(appended_df') - 1) :
               appended_df'[k].idx < appended_df'[k + 1].idx
        \* a new row that collides with an existing row goes, and the first
        \* row with that key, an existing one, stays
        /\ \A a, b \in 1..Len(appended_df) :
               ( /\ appended_df[a].idx < n
                 /\ appended_df[b].idx >= n
                 /\ C5_KeyOf(appended_df[a], col) = C5_KeyOf(appended_df[b], col) )
               => /\ \A k \in 1..Len(appended_df') :
                         appended_df'[k].idx # appended_df[b].idx
                  /\ \E k \in 1..Len(appended_df') :
                         /\ appended_df'[k].idx <= appended_df[a].idx
                         /\ C5_KeyOf(appended_df'[k], col)
                                = C5_KeyOf(appended_df[a], col)

C5_ExistingFirstInOrder ==
    [][ /\ (mpc = "filter" /\ mpc' = "drop_domain") => C5_ConcatInOrder
        /\ (mpc = "drop_domain" /\ mpc' = "drop_name")
               => C5_PassKeepsOrderAndExisting("domain")
        /\ (mpc = "drop_name" /\ mpc' = "save")
               => C5_PassKeepsOrderAndExisting("name_norm") ]_vars

\* persisted: an existing row and a new row survive, and another accepted
\* candidate was dropped because its key is held by an existing row
C5_Witness ==
    /\ mpc = "saved"
    /\ \E k \in 1..Len(appended_df) : appended_df[k].idx < Len(existing_df)
    /\ \E k \in 1..Len(appended_df) : appended_df[k].idx >= Len(existing_df)
    /\ \E j \in accepted :
           /\ \E e \in 1..Len(existing_df) :
                  _normalize_name(existing_df[e].name) = _normalize_name(df[j].name)
           /\ \A k \in 1..Len(appended_df) :
                  ~(appended_df[k].name = df[j].name /\ appended_df[k].site = df[j].site)

(***************************************************************************)
(* Claim C10 (stated as in the spec; the code does not meet it).           *)
(* extractDomain returns the lower-cased host of its input with a single   *)
(* leading "www." stripped, assuming "http://" when the scheme is missing, *)
(* and returns "" for empty input and for any input that is not a          *)
(* parsable URL ("not a url" yields "").                                   *)
(***************************************************************************)
\* a URL holds no whitespace and no unbalanced bracket
ParsableUrl(u) ==
    /\ \A k \in 1..Len(u) : ~IsSpace(Ch(u, k))
    /\ HasChar(u, "[") <=> HasChar(u, "]")

\* the authority of u, "http://" assumed when u names no scheme
ClaimedHost(u) ==
    LET w == IF StartsWith(u, "//") THEN "http:" \o u
             ELSE IF Contains(u, "://") THEN u ELSE "http://" \o u
        a == FirstOf(w, {":"}, 1) + 3
        d == FirstOf(w, {"/", "?", "#"}, a)
    IN  IF d = 0 THEN SubSeq(w, a, Len(w)) ELSE SubSeq(w, a, d - 1)

ClaimedDomain(u) ==
    IF u = "" \/ ~ParsableUrl(u) THEN ""
    ELSE LET h == Lower(ClaimedHost(u))
         IN  IF StartsWith(h, "www.") THEN SubSeq(h, 5, Len(h)) ELSE h

C10_ExtractDomainAsClaimed ==
    kpc = "done" => host = ClaimedDomain(url)

(***************************************************************************)
(* scrape(): the cap on the listing (lines 96-104).                        *)
(***************************************************************************)
MaxCards == 2

\* the value of a string of decimal digits
RECURSIVE DigitsValue(_)
DigitsValue(s) ==
    IF s = "" THEN 0
    ELSE 10 * DigitsValue(SubSeq(s, 1, Len(s) - 1))
         + ((CHOOSE k \in 1..10 : Ch(DigitChars, k) = Ch(s, Len(s))) - 1)

\* int(s): [ok, val]; ok is FALSE where int raises ValueError
ParseInt(s) ==
    LET t      == Strip(s)
        signed == t # "" /\ Head(t) \in {"+", "-"}
        digits == IF signed THEN Tail(t) ELSE t
    IN  IF digits # ""
           /\ \A k \in 1..Len(digits) :
                  \E d \in 1..10 : Ch(DigitChars, d) = Ch(digits, k)
        THEN [ok  |-> TRUE,
              val |-> IF signed /\ Head(t) = "-" THEN 0 - DigitsValue(digits)
                      ELSE DigitsValue(digits)]
        ELSE [ok |-> FALSE, val |-> 0]

\* s[:c]
Slice(s, c) ==
    IF c >= 0
    THEN (IF c >= Len(s) THEN s ELSE SubSeq(s, 1, c))
    ELSE (IF Len(s) + c <= 0 THEN << >> ELSE SubSeq(s, 1, Len(s) + c))

\* os.getenv('MAX_COMPANIES', '4')
DefaultCap == "4"
GetenvMax(env) == IF env = << >> THEN DefaultCap ELSE env[1]

\* lines 98-101
ReadCap(env) ==
    LET p == ParseInt(GetenvMax(env))
    IN  IF p.ok THEN p.val ELSE 4

EnvValues == { << >>, <<"abc">>, <<"0">>, <<"1">>, <<" 2 ">>, <<"-1">> }

\* the text of the first span of each card of the listing
CardText == <<" Alpha", "Beta ", "", "Delta">>
CardTextOf(k) == IF k <= Len(CardText) THEN CardText[k] ELSE "Card"

(***************************************************************************)
(* The cascade of one detail page (lines 156-281).  What the page holds is *)
(* chosen when a step reads it.  In the values a page gives, "!" stands    *)
(* for a value the step raises on (a non-string, a non-dict entry, a call  *)
(* of the page that fails).                                                *)
(***************************************************************************)
LinkedinCompany == "https://linkedin.com/company/a"
Website         == "https://a.io"
FounderX        == "https://linkedin.com/in/x"
FounderY        == "https://linkedin.com/in/y"

\* <<v>> for a non-empty string, << >> for the empty one
Got(v) == IF v = "" THEN << >> ELSE <<v>>

\* the data-page payloads: html.unescape + json.loads either raises
\* ("malformed") or gives props; company_ok is FALSE when props['company']
\* is no dict
Payloads ==
    { [kind |-> "malformed", company_ok |-> TRUE, cl |-> "", cw |-> "",
       founders |-> << >>],
      [kind |-> "ok", company_ok |-> FALSE, cl |-> "", cw |-> "",
       founders |-> << >>],
      [kind |-> "ok", company_ok |-> TRUE, cl |-> "", cw |-> "",
       founders |-> << >>],
      [kind |-> "ok", company_ok |-> TRUE, cl |-> "//linkedin.com/company/a",
       cw |-> " https://a.io", founders |-> <<FounderX, "", FounderY>>],
      [kind |-> "ok", company_ok |-> TRUE, cl |-> LinkedinCompany, cw |-> "",
       founders |-> <<FounderX, "!">>],
      [kind |-> "ok", company_ok |-> TRUE, cl |-> "", cw |-> Website,
       founders |-> <<FounderX, FounderX>>],
      [kind |-> "ok", company_ok |-> TRUE, cl |-> "!", cw |-> Website,
       founders |-> << >>] }

\* lines 177-181: the founders appended before the loop ends or raises
RECURSIVE JsonFounders(_)
JsonFounders(fs) ==
    IF fs = << >> \/ Head(fs) = "!" THEN << >>
    ELSE (IF Head(fs) = "" THEN << >> ELSE <<_normalize_url(Head(fs))>>)
         \o JsonFounders(Tail(fs))

\* lines 157-186: what the JSON step assigns, and the fields it reaches
JsonStep(r) ==
    LET none == [linkedin |-> "", website |-> "", founders |-> << >>,
                 reached |-> << >>]
    IN  IF r.kind # "ok" \/ ~r.company_ok THEN none
        ELSE IF r.cl = "!"
        THEN [none EXCEPT !.reached = <<"organizationProfile">>]
        ELSE IF r.cw = "!"
        THEN [none EXCEPT !.linkedin = _normalize_url(r.cl),
                          !.reached = <<"organizationProfile", "website">>]
        ELSE [linkedin |-> _normalize_url(r.cl),
              website  |-> _normalize_url(r.cw),
              founders |-> JsonFounders(r.founders),
              reached  |-> <<"organizationProfile", "website", "personProfiles">>]

\* mutant of StillEmpty: a step runs whether or not the field is set
AlwaysRun(v) == TRUE

\* `if not company_linkedin`, `if not company_website`, `if not
\* founders_linkedin`: a step runs for a field that is still empty
StillEmpty(v) == Len(v) = 0

\* what a[href*="linkedin.com/company"] gives: no element, an href, a failure
DomLinkedinPages == {"", " https://linkedin.com/company/a", "!"}

\* lines 190-197
DomLinkedin(href) == IF href = "!" THEN "" ELSE _normalize_url(href)

\* the website anchors of the page: the aria-label element and the http anchors
DomWebsitePages ==
    { [web_el |-> TRUE,  href |-> "",        anchors |-> << >>],
      [web_el |-> TRUE,  href |-> " //a.io", anchors |-> <<"https://b.io">>],
      [web_el |-> FALSE, href |-> "",
       anchors |-> <<"https://linkedin.com/company/a", "https://a.io">>],
      [web_el |-> FALSE, href |-> "",        anchors |-> << >>],
      [web_el |-> FALSE, href |-> "!",       anchors |-> << >>] }

\* lines 209-214: the first anchor that is no linkedin link
RECURSIVE FirstExternal(_)
FirstExternal(as) ==
    IF as = << >> THEN ""
    ELSE IF Head(as) # "" /\ ~Contains(Head(as), "linkedin.com") THEN Head(as)
    ELSE FirstExternal(Tail(as))

\* lines 201-217
DomWebsite(pg) ==
    IF pg.href = "!" THEN ""
    ELSE IF pg.web_el THEN _normalize_url(pg.href)
    ELSE _normalize_url(FirstExternal(pg.anchors))

\* the JSON-LD items of the page; ok is FALSE for an item that is no dict
JsonLdPages ==
    { << >>,
      <<[ok |-> TRUE, sameAs |-> <<"https://linkedin.com/company/a", "//a.io">>,
         url |-> ""]>>,
      <<[ok |-> TRUE, sameAs |-> << >>, url |-> " https://a.io"]>>,
      <<[ok |-> TRUE, sameAs |-> <<"https://linkedin.com/company/a">>, url |-> ""],
        [ok |-> FALSE, sameAs |-> << >>, url |-> ""]>> }

\* lines 236-242: the sameAs entries of one item, applied to [cl, cw]
RECURSIVE SameAs(_, _)
SameAs(st, same) ==
    IF same = << >> THEN st
    ELSE LET c   == Head(same)
             cl1 == IF Contains(c, "linkedin.com/company") /\ st.cl = ""
                    THEN _normalize_url(c) ELSE st.cl
             cw1 == IF /\ (StartsWith(c, "http") \/ StartsWith(c, "//"))
                       /\ st.cw = ""
                       /\ ~Contains(c, "linkedin.com")
                    THEN _normalize_url(c) ELSE st.cw
         IN  SameAs([cl |-> cl1, cw |-> cw1], Tail(same))

\* lines 223-246: the items in order, up to the first that raises
RECURSIVE JsonLd(_, _)
JsonLd(st, items) ==
    IF items = << >> \/ ~Head(items).ok THEN st
    ELSE LET s1 == SameAs(st, Head(items).sameAs)
             s2 == IF s1.cw = "" /\ Head(items).url # ""
                   THEN [s1 EXCEPT !.cw = _normalize_url(Head(items).url)]
                   ELSE s1
         IN  JsonLd(s2, Tail(items))

\* the hrefs of a[href*="linkedin.com/in"], "!" for a get_attribute that fails
DomFoundersPages ==
    { << >>,
      <<FounderX, FounderX, FounderY>>,
      <<"//linkedin.com/in/x", FounderX>>,
      <<FounderX, "!">> }

\* lines 254-259
RECURSIVE DomFoundersFrom(_, _)
DomFoundersFrom(hrefs, seen) ==
    IF hrefs = << >> THEN << >>
    ELSE IF Head(hrefs) # "" /\ Head(hrefs) \notin seen
    THEN <<_normalize_url(Head(hrefs))>>
         \o DomFoundersFrom(Tail(hrefs), seen \cup {Head(hrefs)})
    ELSE DomFoundersFrom(Tail(hrefs), seen)

\* lines 251-261
DomFounders(hrefs) ==
    IF \E k \in 1..Len(hrefs) : hrefs[k] = "!" THEN << >>
    ELSE DomFoundersFrom(hrefs, {})

\* what the regular expressions find in cp.content(); raises when it fails
RegexPages ==
    { [raises |-> TRUE,  company |-> "", people |-> << >>],
      [raises |-> FALSE, company |-> "", people |-> << >>],
      [raises |-> FALSE, company |-> LinkedinCompany,
       people |-> <<FounderX, FounderX>>],
      [raises |-> FALSE, company |-> LinkedinCompany,
       people |-> <<FounderX, FounderY>>] }

\* lines 273-279: `seen` is set(founders_linkedin) and is never added to
RECURSIVE RegexFounders(_, _)
RegexFounders(matches, seen) ==
    IF matches = << >> THEN << >>
    ELSE (IF _normalize_url(Head(matches)) \notin seen
          THEN <<_normalize_url(Head(matches))>> ELSE << >>)
         \o RegexFounders(Tail(matches), seen)

(***************************************************************************)
(* scrape(): the listing loop (lines 96-293) and the return (294-405).     *)
(***************************************************************************)
InitScrape ==
    /\ env_max \in EnvValues
    /\ found \in { [k \in 1..n |-> k] : n \in 0..MaxCards }
    /\ MAX_COMPANIES = 0 /\ cards = << >> /\ ci = 0 /\ results = << >>
    /\ card_name = "" /\ company_linkedin = "" /\ company_website = ""
    /\ founders_linkedin = << >> /\ raw = NoRaw /\ attempt = 0 /\ waits = 0
    /\ error = "" /\ open_pages = {} /\ hist = << >> /\ dice_results = << >>
    /\ combined = << >>
    /\ pc = "config"
    /\ KeyIdle
    /\ MergeIdle

\* lines 96-106
ReadConfig ==
    /\ pc = "config"
    /\ MAX_COMPANIES' = ReadCap(env_max)
    /\ cards' = Slice(found, MAX_COMPANIES')
    /\ results' = << >>
    /\ ci' = 1
    /\ pc' = "card"
    /\ UNCHANGED <<env_max, found, card_name, company_linkedin, company_website,
                   founders_linkedin, raw, attempt, waits, error, open_pages,
                   hist, dice_results, combined, keyVars, mergeVars>>

\* lines 110-134: the card is read and the locals are reset
ReadCard ==
    /\ pc = "card"
    /\ ci <= Len(cards)
    /\ card_name' = CardTextOf(cards[ci])
    /\ company_linkedin' = ""
    /\ company_website' = ""
    /\ founders_linkedin' = << >>
    /\ pc' = "open"
    /\ UNCHANGED <<env_max, found, MAX_COMPANIES, cards, ci, results, raw,
                   attempt, waits, error, open_pages, hist, dice_results,
                   combined, keyVars, mergeVars>>

\* lines 111-128 outside any try: a query of the card raises and scrape() ends
\* with that exception
ReadCardRaises ==
    /\ pc = "card"
    /\ ci <= Len(cards)
    /\ pc' = "crashed"
    /\ UNCHANGED <<env_max, found, MAX_COMPANIES, cards, ci, results, card_name,
                   company_linkedin, company_website, founders_linkedin, raw,
                   attempt, waits, error, open_pages, hist, dice_results,
                   combined, keyVars, mergeVars>>

\* lines 137-146: new_page and goto; either may raise into line 284
OpenPage ==
    /\ pc = "open"
    /\ \E o \in {"ok", "new_page", "goto"} :
           /\ open_pages' = IF o = "new_page" THEN open_pages
                            ELSE open_pages \cup {ci}
           /\ error' = IF o = "ok" THEN "" ELSE o
           /\ pc' = IF o = "ok" THEN "fetch" ELSE "emit"
    /\ raw' = NoRaw
    /\ attempt' = 0
    /\ waits' = 0
    /\ UNCHANGED <<env_max, found, MAX_COMPANIES, cards, ci, results, card_name,
                   company_linkedin, company_website, founders_linkedin, hist,
                   dice_results, combined, keyVars, mergeVars>>

\* one iteration of `for attempt in range(3)` (lines 147-155)
FetchAttempt ==
    /\ pc = "fetch"
    /\ attempt < 3
    /\ \/ \* a query or the wait raises: line 284
          /\ error' = "fetch"
          /\ pc' = "emit"
          /\ UNCHANGED <<raw, attempt, waits>>
       \/ \* no element, or an empty data-page attribute: wait and go on
          /\ raw' = NoRaw
          /\ waits' = waits + 1
          /\ attempt' = attempt + 1
          /\ pc' = IF attempt' = 3 THEN "json" ELSE "fetch"
          /\ UNCHANGED error
       \/ \* a payload: break
          /\ \E p \in Payloads : raw' = p
          /\ attempt' = attempt + 1
          /\ pc' = "json"
          /\ UNCHANGED <<waits, error>>
    /\ UNCHANGED <<env_max, found, MAX_COMPANIES, cards, ci, results, card_name,
                   company_linkedin, company_website, founders_linkedin,
                   open_pages, hist, dice_results, combined, keyVars, mergeVars>>

\* lines 157-186
JsonPage ==
    /\ pc = "json"
    /\ LET j == JsonStep(raw)
           reached(f) == \E k \in 1..Len(j.reached) : j.reached[k] = f
       IN  /\ company_linkedin' = j.linkedin
           /\ company_website' = j.website
           /\ founders_linkedin' = j.founders
           /\ hist' = hist
                \o (IF reached("organizationProfile")
                    THEN <<[field |-> "organizationProfile", step |-> "json",
                            got |-> Got(j.linkedin)]>> ELSE << >>)
                \o (IF reached("website")
                    THEN <<[field |-> "website", step |-> "json",
                            got |-> Got(j.website)]>> ELSE << >>)
                \o (IF reached("personProfiles")
                    THEN <<[field |-> "personProfiles", step |-> "json",
                            got |-> j.founders]>> ELSE << >>)
    /\ pc' = "dom_linkedin"
    /\ UNCHANGED <<env_max, found, MAX_COMPANIES, cards, ci, results, card_name,
                   raw, attempt, waits, error, open_pages, dice_results,
                   combined, keyVars, mergeVars>>

\* lines 188-198
DomLinkedinPage ==
    /\ pc = "dom_linkedin"
    /\ IF StillEmpty(company_linkedin)
       THEN \E href \in DomLinkedinPages :
                /\ company_linkedin' = _normalize_url(DomLinkedin(href))
                /\ hist' = Append(hist, [field |-> "organizationProfile",
                                         step |-> "dom",
                                         got |-> Got(DomLinkedin(href))])
       ELSE /\ company_linkedin' = _normalize_url(company_linkedin)
            /\ UNCHANGED hist
    /\ pc' = "dom_website"
    /\ UNCHANGED <<env_max, found, MAX_COMPANIES, cards, ci, results, card_name,
                   company_website, founders_linkedin, raw, attempt, waits,
                   error, open_pages, dice_results, combined, keyVars,
                   mergeVars>>

\* lines 200-217
DomWebsitePage ==
    /\ pc = "dom_website"
    /\ IF StillEmpty(company_website)
       THEN \E pg \in DomWebsitePages :
                /\ company_website' = _normalize_url(DomWebsite(pg))
                /\ hist' = Append(hist, [field |-> "website", step |-> "dom",
                                         got |-> Got(DomWebsite(pg))])
       ELSE /\ company_website' = _normalize_url(company_website)
            /\ UNCHANGED hist
    /\ pc' = "jsonld"
    /\ UNCHANGED <<env_max, found, MAX_COMPANIES, cards, ci, results, card_name,
                   company_linkedin, founders_linkedin, raw, attempt, waits,
                   error, open_pages, dice_results, combined, keyVars,
                   mergeVars>>

\* lines 219-248
JsonLdPage ==
    /\ pc = "jsonld"
    /\ IF StillEmpty(company_linkedin) \/ StillEmpty(company_website)
       THEN \E items \in JsonLdPages :
                LET st == JsonLd([cl |-> company_linkedin,
                                  cw |-> company_website], items)
                IN  /\ company_linkedin' = st.cl
                    /\ company_website' = st.cw
                    /\ hist' = hist
                         \o (IF company_linkedin = ""
                             THEN <<[field |-> "organizationProfile",
                                     step |-> "jsonld", got |-> Got(st.cl)]>>
                             ELSE << >>)
                         \o (IF company_website = ""
                             THEN <<[field |-> "website", step |-> "jsonld",
                                     got |-> Got(st.cw)]>>
                             ELSE << >>)
       ELSE UNCHANGED <<company_linkedin, company_website, hist>>
    /\ pc' = "dom_founders"
    /\ UNCHANGED <<env_max, found, MAX_COMPANIES, cards, ci, results, card_name,
                   founders_linkedin, raw, attempt, waits, error, open_pages,
                   dice_results, combined, keyVars, mergeVars>>

\* lines 250-261
DomFoundersPage ==
    /\ pc = "dom_founders"
    /\ IF StillEmpty(founders_linkedin)
       THEN \E hrefs \in DomFoundersPages :
                /\ founders_linkedin' = DomFounders(hrefs)
                /\ hist' = Append(hist, [field |-> "personProfiles",
                                         step |-> "dom",
                                         got |-> DomFounders(hrefs)])
       ELSE UNCHANGED <<founders_linkedin, hist>>
    /\ pc' = "regex"
    /\ UNCHANGED <<env_max, found, MAX_COMPANIES, cards, ci, results, card_name,
                   company_linkedin, company_website, raw, attempt, waits,
                   error, open_pages, dice_results, combined, keyVars,
                   mergeVars>>

\* lines 263-281
RegexPage ==
    /\ pc = "regex"
    /\ IF StillEmpty(company_linkedin) \/ StillEmpty(founders_linkedin)
       THEN \E pg \in RegexPages :
                LET cl == IF ~pg.raises /\ company_linkedin = ""
                          THEN _normalize_url(pg.company) ELSE company_linkedin
                    fl == IF ~pg.raises /\ founders_linkedin = << >>
                          THEN RegexFounders(pg.people,
                                             {founders_linkedin[k] :
                                                 k \in 1..Len(founders_linkedin)})
                          ELSE founders_linkedin
                IN  /\ company_linkedin' = cl
                    /\ founders_linkedin' = fl
                    /\ hist' = hist
                         \o (IF company_linkedin = ""
                             THEN <<[field |-> "organizationProfile",
                                     step |-> "regex", got |-> Got(cl)]>>
                             ELSE << >>)
                         \o (IF founders_linkedin = << >>
                             THEN <<[field |-> "personProfiles",
                                     step |-> "regex", got |-> fl]>>
                             ELSE << >>)
       ELSE UNCHANGED <<company_linkedin, founders_linkedin, hist>>
    /\ pc' = "close"
    /\ UNCHANGED <<env_max, found, MAX_COMPANIES, cards, ci, results, card_name,
                   company_website, raw, attempt, waits, error, open_pages,
                   dice_results, combined, keyVars, mergeVars>>

\* line 283: cp.close(); when it raises the page may or may not be gone
ClosePage ==
    /\ pc = "close"
    /\ \/ /\ open_pages' = open_pages \ {ci}
          /\ UNCHANGED error
       \/ /\ open_pages' \in {open_pages, open_pages \ {ci}}
          /\ error' = "close"
    /\ pc' = "emit"
    /\ UNCHANGED <<env_max, found, MAX_COMPANIES, cards, ci, results, card_name,
                   company_linkedin, company_website, founders_linkedin, raw,
                   attempt, waits, hist, dice_results, combined, keyVars,
                   mergeVars>>

\* lines 287-293; the locals are dead after the append and are reset here
Emit ==
    /\ pc = "emit"
    /\ results' = Append(results,
                         [name |-> Strip(card_name),
                          site |-> IF company_website # "" THEN company_website
                                   ELSE company_linkedin])
    /\ ci' = ci + 1
    /\ card_name' = "" /\ company_linkedin' = "" /\ company_website' = ""
    /\ founders_linkedin' = << >> /\ raw' = NoRaw /\ attempt' = 0 /\ waits' = 0
    /\ error' = "" /\ hist' = << >>
    /\ pc' = "card"
    /\ UNCHANGED <<env_max, found, MAX_COMPANIES, cards, open_pages,
                   dice_results, combined, keyVars, mergeVars>>

\* lines 294-398: the Dice listing, inside its own try; it adds rows or not
DiceRows == { << >>, <<[name |-> "Dice Co", site |-> "https://d.io"]>> }

ScrapeDice ==
    /\ pc = "card"
    /\ ci > Len(cards)
    /\ dice_results' \in DiceRows
    /\ pc' = "return"
    /\ UNCHANGED <<env_max, found, MAX_COMPANIES, cards, ci, results, card_name,
                   company_linkedin, company_website, founders_linkedin, raw,
                   attempt, waits, error, open_pages, hist, combined, keyVars,
                   mergeVars>>

\* lines 400-405: browser.close() closes the pages still open
Return ==
    /\ pc = "return"
    /\ combined' = results \o dice_results
    /\ open_pages' = {}
    /\ pc' = "returned"
    /\ UNCHANGED <<env_max, found, MAX_COMPANIES, cards, ci, results, card_name,
                   company_linkedin, company_website, founders_linkedin, raw,
                   attempt, waits, error, hist, dice_results, keyVars,
                   mergeVars>>

NextScrape ==
    \/ ReadConfig
    \/ ReadCard
    \/ ReadCardRaises
    \/ OpenPage
    \/ FetchAttempt
    \/ JsonPage
    \/ DomLinkedinPage
    \/ DomWebsitePage
    \/ JsonLdPage
    \/ DomFoundersPage
    \/ RegexPage
    \/ ClosePage
    \/ Emit
    \/ ScrapeDice
    \/ Return

SpecScrape == InitScrape /\ [][NextScrape]_vars

(***************************************************************************)
(* Properties of the listing loop.                                         *)
(***************************************************************************)
Fields == {"website", "organizationProfile", "personProfiles"}

StepRank(st) ==
    CASE st = "json" -> 1 [] st = "dom" -> 2 [] st = "jsonld" -> 3
      [] st = "regex" -> 4

\* the steps below the page-state JSON that exist for a field
LowerSteps(f) ==
    CASE f = "website" -> {"dom", "jsonld"}
      [] f = "organizationProfile" -> {"dom", "jsonld", "regex"}
      [] f = "personProfiles" -> {"dom", "regex"}

\* the value a field holds now, as a sequence
Held(f) ==
    CASE f = "website" -> Got(company_website)
      [] f = "organizationProfile" -> Got(company_linkedin)
      [] f = "personProfiles" -> founders_linkedin

\* the positions of hist at which a step ran for field f
RunsFor(f) == {k \in 1..Len(hist) : hist[k].field = f}

\* C6: for each field the value is the one produced by the highest-priority
\* step that yields something for it; once a field is set no lower step is
\* run for it or overwrites it, and the steps of a still-empty field go on
\* running whatever the other fields hold.
C6_FirstYieldWins ==
    \A f \in Fields :
        /\ \A k, m \in RunsFor(f) :
               k < m => /\ StepRank(hist[k].step) < StepRank(hist[m].step)
                        /\ hist[k].got = << >>
        /\ Held(f) = IF RunsFor(f) = {} THEN << >>
                     ELSE hist[CHOOSE k \in RunsFor(f) :
                                   \A m \in RunsFor(f) : m <= k].got
        /\ pc = "close" =>
               \A st \in LowerSteps(f) :
                   (\E k \in RunsFor(f) : hist[k].step = st)
                       <=> (\A k \in RunsFor(f) :
                                StepRank(hist[k].step) < StepRank(st)
                                    => hist[k].got = << >>)

\* a cascade in which the page-state JSON set one field, so that no other
\* step ran for it, and another field was set by its third step
C6_Witness ==
    /\ pc = "close"
    /\ \E f \in Fields :
           /\ Held(f) # << >>
           /\ \A k \in RunsFor(f) : hist[k].step = "json"
    /\ \E g \in Fields :
           /\ Held(g) # << >>
           /\ Cardinality(RunsFor(g)) >= 3

\* C7 (stated as in the spec; the code does not meet it): personProfiles
\* holds no URL twice, and all its elements come from the one step that
\* first returned a non-empty set.
C7_UniqueFromOneStep ==
    /\ \A a, b \in 1..Len(founders_linkedin) :
           a # b => founders_linkedin[a] # founders_linkedin[b]
    /\ founders_linkedin # << >> =>
           \E k \in RunsFor("personProfiles") :
               /\ hist[k].got = founders_linkedin
               /\ \A m \in RunsFor("personProfiles") :
                      m # k => hist[m].got = << >>

\* C8 (stated as in the spec; the code does not meet it): a card whose
\* detail page cannot be opened is emitted with its trimmed name and an
\* empty website, every listing entry is processed, and no error raised
\* while one card is handled ends the run.
C8_EntityErrorsContained ==
    /\ pc # "crashed"
    /\ (pc = "emit" /\ error \in {"new_page", "goto"}) =>
           company_website = "" /\ company_linkedin = ""
    /\ Len(results) <= Len(cards)
    /\ \A k \in 1..Len(results) :
           results[k].name = Strip(CardTextOf(cards[k]))
    /\ pc \in {"return", "returned"} => Len(results) = Len(cards)

\* C9 (stated as in the spec; the code does not meet it): with the
\* configured integer cap c, or 4 when the value is no number, the cards
\* processed are the first min(c, n) of the n found and no more.
C9_ConfiguredCap ==
    LET p == ParseInt(GetenvMax(env_max))
    IN  IF p.ok THEN p.val ELSE 4

C9_FirstMinOfCapAndFound ==
    pc \notin {"idle", "config"} =>
        LET c == C9_ConfiguredCap
            n == Len(found)
            m == IF c < n THEN c ELSE n
        IN  /\ cards = SubSeq(found, 1, m)
            /\ Len(results) <= (IF m < 0 THEN 0 ELSE m)

\* C11 (stated as in the spec; the code does not meet it): the data-page
\* payload is fetched in at most 3 attempts, the loop ends at the first
\* attempt that returns a non-empty payload, a wait is made only between a
\* failed attempt and the next one, so none after the last, and no other
\* step of the cascade is run twice.
C11_WaitsOnlyBetweenAttempts ==
    /\ attempt <= 3
    /\ (pc = "fetch" => raw = NoRaw /\ waits = attempt)
    /\ (pc = "json" => /\ attempt >= 1
                       /\ raw = NoRaw => attempt = 3
                       /\ waits = attempt - 1)
    /\ \A k, m \in 1..Len(hist) :
           (k # m /\ hist[k].field = hist[m].field)
               => hist[k].step # hist[m].step

\* the field on whose value the JSON step raised, read off the payload
C12_JsonRaisedOn(f) ==
    /\ raw.kind = "ok" /\ raw.company_ok
    /\ CASE f = "organizationProfile" -> raw.cl = "!"
         [] f = "website" -> raw.cl # "!" /\ raw.cw = "!"
         [] f = "personProfiles" ->
                /\ raw.cl # "!" /\ raw.cw # "!"
                /\ \E k \in 1..Len(raw.founders) : raw.founders[k] = "!"

\* C12 (stated as in the spec; the code does not meet it): a step that
\* raises partway through its work on a field has produced nothing for that
\* field: the field stays empty, what the step had gathered is dropped, and
\* the next step for the field is run.
C12_FailedStepLeavesFieldEmpty ==
    \A f \in Fields :
        \A k \in RunsFor(f) :
            (hist[k].step = "json" /\ C12_JsonRaisedOn(f)) =>
                /\ hist[k].got = << >>
                /\ pc = "close" =>
                       \E m \in RunsFor(f) : hist[m].step = "dom"

\* C13 (stated as in the spec; the code does not meet it): the detail page
\* of a card is closed before the page of the next card is opened, whether
\* or not the card's processing failed, so at most one detail page is open
\* at any time and none is open once the listing loop has ended.
C13_OneDetailPageAtATime ==
    /\ Cardinality(open_pages) <= 1
    /\ pc = "open" => open_pages = {}
    /\ ((pc = "card" /\ ci > Len(cards)) \/ pc \in {"return", "returned"})
           => open_pages = {}

====
